---- MODULE Spec2Model ----
(***************************************************************************)
(* Model of two parts of the agent runtime:                                *)
(*   - agent/state/storage.rs      : Storage, a Mutex<IndexMap<String,     *)
(*                                   Entry>> with a discipline (type_)     *)
(*   - agent/serialization/xml.rs  : parse_model_response and              *)
(*                                   serialize_invocation                  *)
(* Strings are sequences of one-character tokens (bytes).  An              *)
(* Option<T> is << >> (None) or <<x>> (Some(x)).                           *)
(***************************************************************************)
EXTENDS Integers, Sequences, FiniteSets, TLC

VARIABLES
    type_,        \* Storage.type_, fixed at construction
    inner,        \* Storage.inner: the IndexMap, a sequence of <<key, Entry>>
    lock,         \* the Mutex of inner: 0 when free, else the holding thread
    pc,           \* per thread: position inside the operation it runs
    op,           \* per thread: the operation being run and its arguments
    tag,          \* per thread: local `tag` of add_untagged
    old_current,  \* per thread: local `old_current` of set_current
    ret,          \* per thread: what its last completed operation returned
    issued,       \* per thread: number of operations it has called
    before,       \* per thread: the map as it was when the thread took the lock
    assigned,     \* history: the tags add_untagged inserted under, in order
    text,         \* parse_model_response: model_response, as bytes
    source,       \* the text the first parse was given
    current,      \* parse_model_response: the cursor `current`
    invocations,  \* parse_model_response: the vector `invocations`
    pstate,       \* "scan" (in the while loop), "done" (Ok returned), "panic"
    iterations,   \* loop iterations executed by the running parse
    round,        \* 0: parsing source, 1: parsing a serialized invocation
    original,     \* the Invocation that was serialized for round 1
    holder,       \* per Storage of the fleet: 0 when its Mutex is free, else the holder
    at,           \* per thread of the fleet: position inside the operation it runs
    on,           \* per thread of the fleet: the Storage its operation was called on
    running,      \* per thread of the fleet: the name of the operation it runs
    started       \* number of operations called on the fleet

storageVars == <<type_, inner, lock, pc, op, tag, old_current, ret, issued, before, assigned>>
parseVars == <<text, source, current, invocations, pstate, iterations, round, original>>
fleetVars == <<holder, at, on, running, started>>
vars == <<type_, inner, lock, pc, op, tag, old_current, ret, issued, before, assigned,
          text, source, current, invocations, pstate, iterations, round, original,
          holder, at, on, running, started>>

----------------------------------------------------------------------------
(* Bounds *)

NThreads == 2
MaxCalls == 3
AddsPerThread == 3
MaxPos == 3
MaxSeqCalls == 6
MaxTextLen == 5
MaxElems == 2
NStorages == 2
MaxFleetCalls == 3

Threads == 1..NThreads

----------------------------------------------------------------------------
(* Option and string helpers *)

None == << >>
Some(x) == <<x>>
IsSome(o) == Len(o) = 1

IsWhitespace(c) == c \in {" ", "\n", "\t"}

RECURSIVE TrimStart(_)
TrimStart(s) ==
    IF s # << >> /\ IsWhitespace(Head(s)) THEN TrimStart(Tail(s)) ELSE s

RECURSIVE TrimEnd(_)
TrimEnd(s) ==
    IF s # << >> /\ IsWhitespace(s[Len(s)]) THEN TrimEnd(SubSeq(s, 1, Len(s) - 1)) ELSE s

\* str::trim
Trim(s) == TrimEnd(TrimStart(s))

DigitChars == <<"0", "1", "2", "3", "4", "5", "6", "7", "8", "9">>

\* format!("{}", n) of a usize
RECURSIVE ToDecimal(_)
ToDecimal(n) ==
    IF n < 10 THEN <<DigitChars[n + 1]>>
    ELSE Append(ToDecimal(n \div 10), DigitChars[(n % 10) + 1])

----------------------------------------------------------------------------
(* storage.rs: Entry, StorageType, the reserved tags, IndexMap *)

Entry(data) == [data |-> data]

StorageTypes == {"Untagged", "Tagged", "CurrentPrevious"}

CURRENT_TAG == <<"_", "_", "c", "u", "r", "r", "e", "n", "t">>
PREVIOUS_TAG == <<"_", "_", "p", "r", "e", "v", "i", "o", "u", "s">>

\* the name every modelled Storage is constructed with
StorageName == <<"X">>

MapKeys(m) == {m[i][1] : i \in 1..Len(m)}

MapIndexOf(m, k) == CHOOSE i \in 1..Len(m) : m[i][1] = k

\* IndexMap::get
MapGet(m, k) == IF k \in MapKeys(m) THEN Some(m[MapIndexOf(m, k)][2]) ELSE None

\* IndexMap::insert: an existing key keeps its place and gets the new value,
\* a new key is appended
MapInsert(m, k, e) ==
    IF k \in MapKeys(m)
    THEN [m EXCEPT ![MapIndexOf(m, k)] = <<k, e>>]
    ELSE Append(m, <<k, e>>)

\* IndexMap::shift_remove: the map without the key, the order of the others kept
MapSwapRemove(m, k) ==
    IF k \in MapKeys(m)
    THEN LET i == MapIndexOf(m, k) IN
         IF i = Len(m)
         THEN SubSeq(m, 1, i - 1)
         ELSE SubSeq(m, 1, i - 1) \o <<m[Len(m)]>> \o SubSeq(m, i + 1, Len(m) - 1)
    ELSE m

MapShiftRemove(m, k) ==
    IF k \in MapKeys(m)
    THEN LET i == MapIndexOf(m, k) IN SubSeq(m, 1, i - 1) \o SubSeq(m, i + 1, Len(m))
    ELSE m

RECURSIVE Concat(_)
Concat(ss) == IF ss = << >> THEN << >> ELSE Head(ss) \o Concat(Tail(ss))

OpenLine(name) == <<"<">> \o name \o <<">", "\n">>
CloseLine(name) == <<"<", "/">> \o name \o <<">">>
ItemPrefix == <<" ", " ", "-", " ">>
CurrentPrefix == <<"*", " ", "C", "u", "r", "r", "e", "n", "t", " ">>
PreviousPrefix == <<"\n", "*", " ", "P", "r", "e", "v", "i", "o", "u", "s", " ">>
ColonSpace == <<":", " ">>

\* the rendering without the is_empty test of lines 64-66
ToStructuredStringUnguarded(ty, m) ==
    OpenLine(StorageName)
    \o Concat([i \in 1..Len(m) |-> ItemPrefix \o m[i][2].data \o <<"\n">>])
    \o CloseLine(StorageName)

\* Storage::to_structured_string, on the locked map
ToStructuredString(ty, m) ==
    IF m = << >> THEN << >>
    ELSE CASE ty = "Tagged" ->
                OpenLine(StorageName)
                \o Concat([i \in 1..Len(m) |->
                        ItemPrefix \o m[i][1] \o <<"=">> \o m[i][2].data \o <<"\n">>])
                \o CloseLine(StorageName)
           [] ty = "Untagged" ->
                OpenLine(StorageName)
                \o Concat([i \in 1..Len(m) |-> ItemPrefix \o m[i][2].data \o <<"\n">>])
                \o CloseLine(StorageName)
           [] ty = "CurrentPrevious" ->
                IF IsSome(MapGet(m, CURRENT_TAG))
                THEN CurrentPrefix \o StorageName \o ColonSpace
                     \o Trim(MapGet(m, CURRENT_TAG)[1].data)
                     \o (IF IsSome(MapGet(m, PREVIOUS_TAG))
                         THEN PreviousPrefix \o StorageName \o ColonSpace
                              \o Trim(MapGet(m, PREVIOUS_TAG)[1].data)
                         ELSE << >>)
                ELSE << >>

----------------------------------------------------------------------------
(* storage.rs: the operations of Storage, one thread per caller *)

Keys == {<<"k">>, <<"j">>, <<"i">>}
Data == {<<"a">>, <<"b">>, <<" ", "c", " ">>}

NoKey == << >>
NoData == << >>

MkOp(name, key, data, pos) == [name |-> name, key |-> key, data |-> data, pos |-> pos]

NoOp == MkOp("none", NoKey, NoData, 0)

Ops ==
    {MkOp("add_tagged", k, d, 0) : k \in Keys, d \in Data}
    \cup {MkOp("del_tagged", k, NoData, 0) : k \in Keys}
    \cup {MkOp("get_tagged", k, NoData, 0) : k \in Keys}
    \cup {MkOp("add_untagged", NoKey, d, 0) : d \in Data}
    \cup {MkOp("del_untagged", NoKey, NoData, p) : p \in 1..MaxPos}
    \cup {MkOp("set_current", NoKey, d, 0) : d \in Data}
    \cup {MkOp("clear", NoKey, NoData, 0), MkOp("to_structured_string", NoKey, NoData, 0)}

\* the assert!(matches!(self.type_, ...)) that opens each discipline-restricted
\* operation; clear and to_structured_string have none
AssertTypeMissing(name, ty) == TRUE
AssertType(name, ty) ==
    CASE name \in {"add_tagged", "del_tagged", "get_tagged"} -> ty = "Tagged"
      [] name \in {"add_untagged", "del_untagged"} -> ty = "Untagged"
      [] name = "set_current" -> ty = "CurrentPrevious"
      [] OTHER -> TRUE

\* the first step of each operation once the lock is held
FirstStep(name) == IF name = "add_untagged" THEN "add_untagged_tag"
                   ELSE IF name = "set_current" THEN "set_current_remove"
                   ELSE name

Result(name, val) == [op |-> name, val |-> val]

NoResult == Result("none", None)

\* Mutex::lock: granted only while no thread holds the mutex
LockFreeBroken == TRUE
LockFree == lock = 0

RECURSIVE SumTo(_, _)
SumTo(f, n) == IF n = 0 THEN 0 ELSE f[n] + SumTo(f, n - 1)

TotalIssued == SumTo(issued, NThreads)

\* entry of an operation: the discipline assert, before the lock is requested;
\* a failed assert panics the calling thread (of the call only the name is kept)
Call(t, o) ==
    /\ pc[t] = "idle"
    /\ issued' = [issued EXCEPT ![t] = @ + 1]
    /\ op' = [op EXCEPT ![t] = IF AssertType(o.name, type_) THEN o
                                ELSE MkOp(o.name, NoKey, NoData, 0)]
    /\ pc' = [pc EXCEPT ![t] = IF AssertType(o.name, type_) THEN "lock" ELSE "panicked"]
    /\ UNCHANGED <<type_, inner, lock, tag, old_current, ret, before, assigned>>
    /\ UNCHANGED <<parseVars, fleetVars>>

\* self.inner.lock().unwrap()
Lock(t) ==
    /\ pc[t] = "lock"
    /\ LockFree
    /\ lock' = t
    /\ before' = [before EXCEPT ![t] = inner]
    /\ pc' = [pc EXCEPT ![t] = FirstStep(op[t].name)]
    /\ UNCHANGED <<type_, inner, op, tag, old_current, ret, issued, assigned>>
    /\ UNCHANGED <<parseVars, fleetVars>>

\* the end of an operation: the MutexGuard is dropped, the locals go out of
\* scope and the value is returned
Return(t, val) ==
    /\ lock' = 0
    /\ pc' = [pc EXCEPT ![t] = "idle"]
    /\ ret' = [ret EXCEPT ![t] = Result(op[t].name, val)]
    /\ op' = [op EXCEPT ![t] = NoOp]
    /\ tag' = [tag EXCEPT ![t] = << >>]
    /\ old_current' = [old_current EXCEPT ![t] = None]
    /\ before' = [before EXCEPT ![t] = << >>]

AddTagged(t) ==
    /\ pc[t] = "add_tagged"
    /\ inner' = MapInsert(inner, op[t].key, Entry(op[t].data))
    /\ Return(t, None)
    /\ UNCHANGED <<type_, issued, assigned>>
    /\ UNCHANGED <<parseVars, fleetVars>>

RemovedData(m, k) == IF IsSome(MapGet(m, k)) THEN Some(MapGet(m, k)[1].data) ELSE None

DelTagged(t) ==
    /\ pc[t] = "del_tagged"
    /\ inner' = MapShiftRemove(inner, op[t].key)
    /\ Return(t, RemovedData(inner, op[t].key))
    /\ UNCHANGED <<type_, issued, assigned>>
    /\ UNCHANGED <<parseVars, fleetVars>>

GetTagged(t) ==
    /\ pc[t] = "get_tagged"
    /\ Return(t, RemovedData(inner, op[t].key))
    /\ UNCHANGED <<type_, inner, issued, assigned>>
    /\ UNCHANGED <<parseVars, fleetVars>>

\* let tag = format!("{}", inner.len() + 1);
NextTag(m) == ToDecimal(Len(m) + 1)

AddUntaggedTag(t) ==
    /\ pc[t] = "add_untagged_tag"
    /\ tag' = [tag EXCEPT ![t] = NextTag(inner)]
    /\ pc' = [pc EXCEPT ![t] = "add_untagged_insert"]
    /\ UNCHANGED <<type_, inner, lock, op, old_current, ret, issued, before, assigned>>
    /\ UNCHANGED <<parseVars, fleetVars>>

\* inner.insert(tag, Entry::new(data.to_string()));
AddUntaggedInsert(t) ==
    /\ pc[t] = "add_untagged_insert"
    /\ inner' = MapInsert(inner, tag[t], Entry(op[t].data))
    /\ assigned' = Append(assigned, tag[t])
    /\ Return(t, None)
    /\ UNCHANGED <<type_, issued>>
    /\ UNCHANGED <<parseVars, fleetVars>>

\* let tag = format!("{}", pos);
PosTagZeroBased(pos) == ToDecimal(pos - 1)
PosTag(pos) == ToDecimal(pos)

DelUntagged(t) ==
    /\ pc[t] = "del_untagged"
    /\ inner' = MapShiftRemove(inner, PosTag(op[t].pos))
    /\ Return(t, RemovedData(inner, PosTag(op[t].pos)))
    /\ UNCHANGED <<type_, issued, assigned>>
    /\ UNCHANGED <<parseVars, fleetVars>>

\* let old_current = inner.shift_remove(CURRENT_TAG);
SetCurrentRemove(t) ==
    /\ pc[t] = "set_current_remove"
    /\ old_current' = [old_current EXCEPT ![t] = MapGet(inner, CURRENT_TAG)]
    /\ inner' = MapShiftRemove(inner, CURRENT_TAG)
    /\ pc' = [pc EXCEPT ![t] = "set_current_insert"]
    /\ UNCHANGED <<type_, lock, op, tag, ret, issued, before, assigned>>
    /\ UNCHANGED <<parseVars, fleetVars>>

\* inner.insert(CURRENT_TAG.to_string(), Entry::new(data.to_string()));
SetCurrentInsert(t) ==
    /\ pc[t] = "set_current_insert"
    /\ inner' = MapInsert(inner, CURRENT_TAG, Entry(op[t].data))
    /\ pc' = [pc EXCEPT ![t] = "set_current_demote"]
    /\ UNCHANGED <<type_, lock, op, tag, old_current, ret, issued, before, assigned>>
    /\ UNCHANGED <<parseVars, fleetVars>>

\* if let Some(old_curr) = old_current { inner.insert(PREVIOUS_TAG, old_curr); }
DemoteKeepsPrevious(m, old) ==
    IF IsSome(old) /\ ~IsSome(MapGet(m, PREVIOUS_TAG))
    THEN MapInsert(m, PREVIOUS_TAG, old[1]) ELSE m
Demote(m, old) == IF IsSome(old) THEN MapInsert(m, PREVIOUS_TAG, old[1]) ELSE m

SetCurrentDemote(t) ==
    /\ pc[t] = "set_current_demote"
    /\ inner' = Demote(inner, old_current[t])
    /\ Return(t, None)
    /\ UNCHANGED <<type_, issued, assigned>>
    /\ UNCHANGED <<parseVars, fleetVars>>

\* IndexMap::clear
ClearedCurrentOnly(m) == MapShiftRemove(m, CURRENT_TAG)
Cleared(m) == << >>

Clear(t) ==
    /\ pc[t] = "clear"
    /\ inner' = Cleared(inner)
    /\ Return(t, None)
    /\ UNCHANGED <<type_, issued, assigned>>
    /\ UNCHANGED <<parseVars, fleetVars>>

Render(t) ==
    /\ pc[t] = "to_structured_string"
    /\ Return(t, ToStructuredString(type_, inner))
    /\ UNCHANGED <<type_, inner, issued, assigned>>
    /\ UNCHANGED <<parseVars, fleetVars>>

\* the calls made where threads run concurrently: every operation, with fewer
\* argument values than Ops has
ConcurrentOps ==
    {o \in Ops :
        /\ o.key \in {NoKey, <<"k">>, <<"j">>}
        /\ o.name \in {"add_tagged", "add_untagged"} => o.data = <<"a">>
        /\ o.pos \in {0, 1, 2}}

\* a thread of the runtime calls any operation
CallAny(t) ==
    /\ TotalIssued < MaxCalls
    /\ \E o \in ConcurrentOps : Call(t, o)

\* the single caller of the sequential scenarios calls any operation
CallSeq(t) ==
    /\ issued[t] < MaxSeqCalls
    /\ \E o \in Ops : Call(t, o)

\* the value thread t adds in its k-th call of the concurrent-append scenario
ValueOf(t, k) == <<"v">> \o ToDecimal(t) \o <<"-">> \o ToDecimal(k)

CallAdd(t) ==
    /\ issued[t] < AddsPerThread
    /\ Call(t, MkOp("add_untagged", NoKey, ValueOf(t, issued[t] + 1), 0))

----------------------------------------------------------------------------
(* The locking of the operations, on several Storages: each operation calls   *)
(* self.inner.lock() once, on the Storage it was called on, and the guard is  *)
(* dropped when it returns.                                                   *)

Storages == 1..NStorages

\* the discipline each Storage of the fleet was constructed with
Discipline(s) ==
    CASE s % 3 = 1 -> "CurrentPrevious"
      [] s % 3 = 2 -> "Untagged"
      [] OTHER -> "Tagged"

\* the operations that lock a Storage: those of Storage and serialize_storage
LockingOps == {o.name : o \in Ops} \cup {"serialize_storage"}

\* the step that follows step p of an operation, "idle" after its last step
NextStep(p) ==
    CASE p = "add_untagged_tag" -> "add_untagged_insert"
      [] p = "set_current_remove" -> "set_current_insert"
      [] p = "set_current_insert" -> "set_current_demote"
      [] OTHER -> "idle"

\* the MutexGuard goes out of scope when the operation returns
GuardKept(t) == t
GuardDropped(t) == 0

FleetIdle ==
    /\ holder = [s \in Storages |-> 0]
    /\ at = [t \in Threads |-> "idle"]
    /\ on = [t \in Threads |-> 0]
    /\ running = [t \in Threads |-> "none"]
    /\ started = 0

\* thread t calls operation name on Storage s
FleetCall(t) ==
    /\ at[t] = "idle"
    /\ started < MaxFleetCalls
    /\ started' = started + 1
    /\ \E s \in Storages : \E name \in LockingOps :
        IF AssertType(name, Discipline(s))
        THEN /\ at' = [at EXCEPT ![t] = "lock"]
             /\ on' = [on EXCEPT ![t] = s]
             /\ running' = [running EXCEPT ![t] = name]
        ELSE /\ at' = [at EXCEPT ![t] = "panicked"]
             /\ UNCHANGED <<on, running>>
    /\ UNCHANGED holder
    /\ UNCHANGED <<storageVars, parseVars>>

\* self.inner.lock().unwrap() on the Storage of the call
FleetLock(t) ==
    /\ at[t] = "lock"
    /\ holder[on[t]] = 0
    /\ holder' = [holder EXCEPT ![on[t]] = t]
    /\ at' = [at EXCEPT ![t] = FirstStep(running[t])]
    /\ UNCHANGED <<on, running, started>>
    /\ UNCHANGED <<storageVars, parseVars>>

\* one step of the operation under the lock; the last one returns
FleetStep(t) ==
    /\ at[t] \notin {"idle", "lock", "panicked"}
    /\ at' = [at EXCEPT ![t] = NextStep(at[t])]
    /\ IF NextStep(at[t]) = "idle"
       THEN /\ holder' = [holder EXCEPT ![on[t]] = GuardDropped(t)]
            /\ on' = [on EXCEPT ![t] = 0]
            /\ running' = [running EXCEPT ![t] = "none"]
       ELSE UNCHANGED <<holder, on, running>>
    /\ UNCHANGED started
    /\ UNCHANGED <<storageVars, parseVars>>

\* Storage::new
NewStorage(ty) ==
    /\ type_ = ty
    /\ inner = << >>
    /\ lock = 0
    /\ pc = [t \in Threads |-> "idle"]
    /\ op = [t \in Threads |-> NoOp]
    /\ tag = [t \in Threads |-> << >>]
    /\ old_current = [t \in Threads |-> None]
    /\ ret = [t \in Threads |-> NoResult]
    /\ issued = [t \in Threads |-> 0]
    /\ before = [t \in Threads |-> << >>]
    /\ assigned = << >>

\* no parse is running
ParseIdle ==
    /\ text = << >>
    /\ source = << >>
    /\ current = 0
    /\ invocations = << >>
    /\ pstate = "done"
    /\ iterations = 0
    /\ round = 0
    /\ original = None

Init == (\E ty \in StorageTypes : NewStorage(ty)) /\ ParseIdle /\ FleetIdle

Next ==
    \E t \in Threads :
        \/ CallAny(t)
        \/ Lock(t)
        \/ AddTagged(t)
        \/ DelTagged(t)
        \/ GetTagged(t)
        \/ AddUntaggedTag(t)
        \/ AddUntaggedInsert(t)
        \/ DelUntagged(t)
        \/ SetCurrentRemove(t)
        \/ SetCurrentInsert(t)
        \/ SetCurrentDemote(t)
        \/ Clear(t)
        \/ Render(t)

Spec == Init /\ [][Next]_vars

\* one caller: the operations run one after another
NextSeq ==
    \/ CallSeq(1)
    \/ Lock(1)
    \/ AddTagged(1)
    \/ DelTagged(1)
    \/ GetTagged(1)
    \/ AddUntaggedTag(1)
    \/ AddUntaggedInsert(1)
    \/ DelUntagged(1)
    \/ SetCurrentRemove(1)
    \/ SetCurrentInsert(1)
    \/ SetCurrentDemote(1)
    \/ Clear(1)
    \/ Render(1)

SpecSeq == Init /\ [][NextSeq]_vars

InitFleet == NewStorage("Untagged") /\ ParseIdle /\ FleetIdle

NextFleet ==
    \E t \in Threads :
        \/ FleetCall(t)
        \/ FleetLock(t)
        \/ FleetStep(t)

\* the scheduler lets every thread that can take a step take one
FleetFairness == \A t \in Threads : WF_vars(FleetLock(t)) /\ WF_vars(FleetStep(t))

SpecFleet == InitFleet /\ [][NextFleet]_vars /\ FleetFairness

InitAdd == NewStorage("Untagged") /\ ParseIdle /\ FleetIdle

NextAdd ==
    \E t \in Threads :
        \/ CallAdd(t)
        \/ Lock(t)
        \/ AddUntaggedTag(t)
        \/ AddUntaggedInsert(t)

SpecAdd == InitAdd /\ [][NextAdd]_vars

----------------------------------------------------------------------------
(* xml.rs: byte strings, slices and searches.  Offsets are 0-based as in   *)
(* the source; a search that finds nothing gives NotFound (None).          *)

NotFound == 0 - 1

\* the one two-byte character of the modelled inputs and its UTF-8 bytes
TwoByteChar == "e'"
LeadByte == "C3"
ContinuationByte == "A9"

\* str::is_char_boundary
IsCharBoundary(s, i) ==
    /\ 0 <= i
    /\ i <= Len(s)
    /\ (i = 0 \/ i = Len(s) \/ s[i + 1] # ContinuationByte)

\* whether &s[a..b] is a valid slice (else the slice expression panics)
SliceOk(s, a, b) == a <= b /\ IsCharBoundary(s, a) /\ IsCharBoundary(s, b)

\* &s[a..b]
Slice(s, a, b) == SubSeq(s, a + 1, b)

\* s.as_bytes()[i]
At(s, i) == s[i + 1]

\* str::find of a character (of a set of characters)
FindChar(s, cs) ==
    IF \E i \in 1..Len(s) : s[i] \in cs
    THEN (CHOOSE i \in 1..Len(s) : s[i] \in cs /\ \A j \in 1..(i - 1) : s[j] \notin cs) - 1
    ELSE NotFound

\* first offset >= from of a character of cs
FindCharFrom(s, cs, from) ==
    IF FindChar(Slice(s, from, Len(s)), cs) = NotFound THEN NotFound
    ELSE from + FindChar(Slice(s, from, Len(s)), cs)

IsAt(s, pat, i) == i + Len(pat) <= Len(s) /\ SubSeq(s, i + 1, i + Len(pat)) = pat

\* str::find of a string
FindStr(s, pat) ==
    IF \E i \in 0..Len(s) : IsAt(s, pat, i)
    THEN CHOOSE i \in 0..Len(s) : IsAt(s, pat, i) /\ \A j \in 0..(i - 1) : ~IsAt(s, pat, j)
    ELSE NotFound

----------------------------------------------------------------------------
(* xml.rs: XML_ATTRIBUTES_PARSER and the attribute map *)

\* captures_iter of (([^=]+)="([^"]+)") over s from offset pos: the successive
\* leftmost matches as <<group 2, group 3>>.  A match starting at a byte other than
\* '=' runs to the first '=', which must be followed by a quote, a non-empty run
\* without quotes and a quote; when that fails no match starts before that '='.
RECURSIVE Captures(_, _)
Captures(s, pos) ==
    IF pos >= Len(s) THEN << >>
    ELSE IF At(s, pos) = "=" THEN Captures(s, pos + 1)
    ELSE LET eq == FindCharFrom(s, {"="}, pos)
             quote == IF eq = NotFound THEN NotFound ELSE FindCharFrom(s, {"\""}, eq + 2)
         IN  IF eq = NotFound THEN << >>
             ELSE IF /\ eq + 1 < Len(s)
                     /\ At(s, eq + 1) = "\""
                     /\ quote # NotFound
                     /\ quote > eq + 2
                  THEN <<  <<Slice(s, pos, eq), Slice(s, eq + 2, quote)>>  >>
                       \o Captures(s, quote + 1)
                  ELSE Captures(s, eq + 1)

\* HashMap::insert on a map kept as a set of <<key, value>>
HashInsert(m, k, v) == {kv \in m : kv[1] # k} \cup {<<k, v>>}

RECURSIVE InsertAll(_, _)
InsertAll(m, caps) ==
    IF caps = << >> THEN m
    ELSE InsertAll(HashInsert(m, Trim(Head(caps)[1]), Trim(Head(caps)[2])), Tail(caps))

\* the attrs map built from attr_str
ParseAttributes(attr_str) == InsertAll({}, Captures(attr_str, 0))

----------------------------------------------------------------------------
(* xml.rs: parse_model_response *)

Invocation(action, attributes, payload) ==
    [action |-> action, attributes |-> attributes, payload |-> payload]

\* the payload of a matched element, from the text between its tags
Payload(after_tag_close) ==
    IF after_tag_close # << >>
    THEN IF after_tag_close[1] # "<" THEN Some(Trim(after_tag_close)) ELSE None
    ELSE None

\* "just skip ahead": current += 1
SkipAheadStuck(c) == c
SkipAhead(c) == c + 1

\* current after the three additions made on the way to a match
MatchCursor(open, term, close, name_len) == open + term + close + name_len

Outcome(kind, cur, inv) == [kind |-> kind, current |-> cur, inv |-> inv]

\* one iteration of the while loop with the cursor at cur: what happens ("panic",
\* "break", "skip" or "match"), the cursor afterwards and the Invocation pushed
ScanStep(txt, cur) ==
    LET size == Len(txt)
        ptr0 == Slice(txt, cur, size)
        tag_open_idx == FindChar(ptr0, {"<"})
        cur1 == cur + tag_open_idx
        ptr == Slice(ptr0, tag_open_idx, Len(ptr0))
        tag_name_term_idx == FindChar(ptr, {">", " "})
        cur2 == cur1 + tag_name_term_idx
        tag_name == Slice(ptr, 1, tag_name_term_idx)
        tag_close_idx == FindChar(ptr, {">"})
        cur3 == MatchCursor(cur1, tag_name_term_idx, tag_close_idx, Len(tag_name))
        tag_closing == <<"<", "/">> \o tag_name \o <<">">>
        tag_closing_idx == FindStr(ptr, tag_closing)
        attributes == IF At(ptr, tag_name_term_idx) = " "
                      THEN Some(ParseAttributes(Slice(ptr, tag_name_term_idx + 1, tag_close_idx)))
                      ELSE None
        after_tag_close == Slice(ptr, tag_close_idx + 1, tag_closing_idx)
    IN  IF ~SliceOk(txt, cur, size) THEN Outcome("panic", cur, None)
        ELSE IF tag_open_idx = NotFound THEN Outcome("break", cur, None)
        ELSE IF tag_name_term_idx = NotFound THEN Outcome("skip", SkipAhead(cur1), None)
        ELSE IF ~SliceOk(ptr, 1, tag_name_term_idx) THEN Outcome("panic", cur2, None)
        ELSE IF tag_close_idx = NotFound THEN Outcome("skip", SkipAhead(cur2), None)
        ELSE IF tag_closing_idx = NotFound THEN Outcome("skip", SkipAhead(cur3), None)
        ELSE IF At(ptr, tag_name_term_idx) = " "
                /\ ~SliceOk(ptr, tag_name_term_idx + 1, tag_close_idx)
             THEN Outcome("panic", cur3, None)
        ELSE IF ~SliceOk(ptr, tag_close_idx + 1, tag_closing_idx)
             THEN Outcome("panic", cur3, None)
        ELSE Outcome("match", cur3,
                     Some(Invocation(tag_name, attributes, Payload(after_tag_close))))

\* while current < model_response_size { ... }: one iteration
ParseLoop ==
    /\ pstate = "scan"
    /\ current < Len(text)
    /\ LET o == ScanStep(text, current) IN
        /\ current' = o.current
        /\ invocations' = IF o.kind = "match" THEN Append(invocations, o.inv[1])
                          ELSE invocations
        /\ pstate' = CASE o.kind = "panic" -> "panic"
                       [] o.kind = "break" -> "done"
                       [] OTHER -> "scan"
    /\ iterations' = iterations + 1
    /\ UNCHANGED <<text, source, round, original>>
    /\ UNCHANGED <<storageVars, fleetVars>>

\* the loop condition fails: Ok(invocations)
ParseReturn ==
    /\ pstate = "scan"
    /\ current >= Len(text)
    /\ pstate' = "done"
    /\ UNCHANGED <<text, source, current, invocations, iterations, round, original>>
    /\ UNCHANGED <<storageVars, fleetVars>>

----------------------------------------------------------------------------
(* xml.rs: serialize_invocation *)

\* the orders in which a HashMap of these pairs can be iterated
Orders(m) ==
    {f \in [1..Cardinality(m) -> m] : \A i, j \in 1..Cardinality(m) : f[i] = f[j] => i = j}

AttrText(kv) == <<" ">> \o kv[1] \o <<"=", "\"">> \o kv[2] \o <<"\"">>

\* serialize_invocation, the attributes visited in the given order
SerializeInvocation(inv, order) ==
    <<"<">> \o inv.action
    \o (IF IsSome(inv.attributes)
        THEN Concat([i \in 1..Len(order) |-> AttrText(order[i])]) ELSE << >>)
    \o <<">">>
    \o (IF IsSome(inv.payload) THEN inv.payload[1] ELSE << >>)
    \o <<"<", "/">> \o inv.action \o <<">">>

\* a returned Invocation is serialized and the result parsed again
Reserialize ==
    /\ pstate = "done"
    /\ round = 0
    /\ \E i \in 1..Len(invocations) :
        \E order \in Orders(IF IsSome(invocations[i].attributes)
                            THEN invocations[i].attributes[1] ELSE {}) :
            /\ original' = Some(invocations[i])
            /\ text' = SerializeInvocation(invocations[i], order)
    /\ round' = 1
    /\ current' = 0
    /\ invocations' = << >>
    /\ iterations' = 0
    /\ pstate' = "scan"
    /\ UNCHANGED source
    /\ UNCHANGED <<storageVars, fleetVars>>

----------------------------------------------------------------------------
(* The texts given to parse_model_response *)

Alphabet == {"<", ">", "/", " ", "a", TwoByteChar}

\* the UTF-8 bytes of a sequence of characters
Encode(cs) ==
    Concat([i \in 1..Len(cs) |->
        IF cs[i] = TwoByteChar THEN <<LeadByte, ContinuationByte>> ELSE <<cs[i]>>])

\* every text of at most MaxTextLen characters of Alphabet
ShortTexts == {Encode(cs) : cs \in UNION {[1..n -> Alphabet] : n \in 0..MaxTextLen}}

ElemNames == {<<"a">>, <<"b">>, <<"c", "d", "e", "f">>}

OneAttr == <<" ", "k", "=", "\"", "v", "\"">>
TwoAttrs == <<" ", "k", "=", "\"", "v", "\"", " ", "j", "=", "\"", "w", " ", "z", "\"">>
AttrClauses == {<< >>, OneAttr, TwoAttrs}

ShortPayloads == {<< >>, <<"x">>, <<"x", "x", "x", "x", "x">>}
Payloads == ShortPayloads \cup {<<" ">>, <<" ", "y", " ">>}

\* the well-formed invocation <name attrs>payload</name>
Element(name, attrs, payload) ==
    <<"<">> \o name \o attrs \o <<">">> \o payload \o <<"<", "/">> \o name \o <<">">>

ElementOf(d) == Element(d.name, d.attrs, d.payload)

\* single well-formed invocations
SingleTexts == {Element(n, a, p) : n \in ElemNames, a \in AttrClauses, p \in Payloads}

SeqElements == [name : ElemNames, attrs : {<< >>, OneAttr}, payload : ShortPayloads]

\* 2..MaxElems well-formed, non-nested invocations written one after another
ElementSeqs == UNION {[1..n -> SeqElements] : n \in 2..MaxElems}

SeqText(es) == Concat([i \in 1..Len(es) |-> ElementOf(es[i])])

SequenceTexts == {SeqText(es) : es \in ElementSeqs}

\* what an element named n can hold when its content starts with '<' and no
\* inner tag bears its name: one element, an element inside an element, or
\* several elements
Bodies(n) ==
    {ElementOf(d) : d \in {e \in SeqElements : e.name # n}}
    \cup {Element(m, << >>, ElementOf(d)) :
            m \in ElemNames \ {n}, d \in {e \in SeqElements : e.name # n}}
    \cup {SeqText(es) : es \in {fs \in ElementSeqs : \A i \in 1..Len(fs) : fs[i].name # n}}

NestedTexts == UNION {{Element(n, << >>, b) : b \in Bodies(n)} : n \in ElemNames}

\* an opening tag <name attrs> on its own
Opening(name, attrs) == <<"<">> \o name \o attrs \o <<">">>

Paddings == {<< >>, <<" ", " ", " ", " ", " ", " ">>}

\* an opening tag that is never closed, then (after some blanks or none) a
\* well-formed invocation of another name
UnterminatedTexts ==
    UNION {{Opening(n, a) \o pad \o ElementOf(d) :
                a \in {<< >>, OneAttr}, pad \in Paddings,
                d \in {e \in SeqElements : e.name # n}} : n \in ElemNames}

\* attribute clauses with a malformed or a repeated attribute next to the
\* well-formed k="v", and the attributes that are well-formed in each
UnquotedFirst == <<" ", "a", "=", "b", " ", "k", "=", "\"", "v", "\"">>
EmptyFirst == <<" ", "a", "=", "\"", "\"", " ", "k", "=", "\"", "v", "\"">>
UnquotedLast == <<" ", "k", "=", "\"", "v", "\"", " ", "a", "=", "b">>
EmptyLast == <<" ", "k", "=", "\"", "v", "\"", " ", "a", "=", "\"", "\"">>
Repeated == <<" ", "k", "=", "\"", "v", "\"", " ", "k", "=", "\"", "w", "\"">>

MalformedClauses == {UnquotedFirst, EmptyFirst, UnquotedLast, EmptyLast}

MalformedAttrTexts ==
    {Element(n, a, p) :
        n \in ElemNames, a \in MalformedClauses \cup {Repeated}, p \in ShortPayloads}

ParseInputs ==
    ShortTexts \cup SingleTexts \cup SequenceTexts \cup NestedTexts
    \cup UnterminatedTexts \cup MalformedAttrTexts

InitParse ==
    /\ NewStorage("Untagged")
    /\ FleetIdle
    /\ text \in ParseInputs
    /\ source = text
    /\ current = 0
    /\ invocations = << >>
    /\ pstate = "scan"
    /\ iterations = 0
    /\ round = 0
    /\ original = None

NextParse ==
    \/ ParseLoop
    \/ ParseReturn
    \/ Reserialize

SpecParse == InitParse /\ [][NextParse]_vars

----------------------------------------------------------------------------
(* Claims about Storage *)

AllIdle == \A t \in Threads : pc[t] = "idle"

\* C1: in an Untagged Storage the tags add_untagged assigns are 1, 2, 3, ... in
\* the order of the calls, so that no tag is assigned twice, whether or not del_untagged
\* removed entries in between.
C1_TagsNeverReused ==
    \A i \in 1..Len(assigned) : assigned[i] = ToDecimal(i)

\* C2: add_untagged(data) is an append in every reachable state: the map has
\* one entry more than when the call took the lock, its last entry holds data, and
\* the entries that were present keep their key and data.
C2_AddUntaggedAppends ==
    [][\A t \in Threads :
        (pc[t] = "add_untagged_insert" /\ pc'[t] = "idle") =>
            /\ Len(inner') = Len(before[t]) + 1
            /\ inner'[Len(inner')][2].data = op[t].data
            /\ SubSeq(inner', 1, Len(before[t])) = before[t]]_vars

AddsDone == \A t \in Threads : issued[t] = AddsPerThread /\ pc[t] = "idle"

\* C3: once NThreads threads have each completed AddsPerThread add_untagged
\* calls on an initially empty Untagged Storage, whatever the interleaving, the
\* map holds NThreads * AddsPerThread entries, their keys are the positions
\* 1..NThreads * AddsPerThread, each once, and every added value is present.
C3_ConcurrentAddsAllKept ==
    AddsDone =>
        /\ Len(inner) = NThreads * AddsPerThread
        /\ MapKeys(inner) = {ToDecimal(i) : i \in 1..(NThreads * AddsPerThread)}
        /\ {inner[i][2].data : i \in 1..Len(inner)}
             = {ValueOf(t, k) : t \in Threads, k \in 1..AddsPerThread}

C3_Witness == AddsDone /\ Len(inner) = NThreads * AddsPerThread /\ NThreads > 1

\* what to_structured_string shows for a current value and an optional previous one
CurrentPreviousText(cur, prev) ==
    CurrentPrefix \o StorageName \o ColonSpace \o Trim(cur)
    \o (IF IsSome(prev) THEN PreviousPrefix \o StorageName \o ColonSpace \o Trim(prev[1].data)
        ELSE << >>)

\* C10: a completed set_current(data) leaves data as current, the current of
\* before the call (if any) as previous, nothing else in the map (a prior previous
\* is gone; without an old current there is no previous), and the Storage renders
\* as "* Current X: data" followed, when there was an old current, by
\* "* Previous X: old".
C10_SetCurrentDemotes ==
    [][\A t \in Threads :
        (pc[t] = "set_current_demote" /\ pc'[t] = "idle") =>
            LET old == MapGet(before[t], CURRENT_TAG) IN
            /\ MapGet(inner', CURRENT_TAG) = Some(Entry(op[t].data))
            /\ MapGet(inner', PREVIOUS_TAG) = old
            /\ MapKeys(inner') \subseteq {CURRENT_TAG, PREVIOUS_TAG}
            /\ Len(inner') = IF IsSome(old) THEN 2 ELSE 1
            /\ ToStructuredString(type_, inner') = CurrentPreviousText(op[t].data, old)]_vars

\* set_current("a"), set_current("b"), set_current(" c ") have run: current c,
\* previous b, a gone
C10_Witness ==
    /\ AllIdle
    /\ issued[1] = 3
    /\ MapGet(inner, CURRENT_TAG) = Some(Entry(<<" ", "c", " ">>))
    /\ MapGet(inner, PREVIOUS_TAG) = Some(Entry(<<"b">>))
    /\ ToStructuredString(type_, inner)
         = <<"*", " ", "C", "u", "r", "r", "e", "n", "t", " ", "X", ":", " ", "c", "\n",
             "*", " ", "P", "r", "e", "v", "i", "o", "u", "s", " ", "X", ":", " ", "b">>

----------------------------------------------------------------------------
(* Claims about parse_model_response and serialize_invocation *)

FirstParseDone == round = 0 /\ pstate = "done"

\* C4: parse_model_response never panics: every slice it takes is valid, on
\* every input text.
C4_ParseNeverPanics == pstate # "panic"

\* C5: every iteration of the scan loop that leaves the scan running (a match,
\* an abandoned opening tag, a '<' without name terminator) moves the cursor
\* strictly forward, and the loop runs at most length(text) iterations.
C5_ForwardProgress ==
    [][(pstate = "scan" /\ iterations' = iterations + 1) =>
            /\ pstate' = "scan" => current' > current
            /\ iterations' <= Len(text)]_vars

\* a finished scan that matched one element and abandoned at least one tag
C5_Witness ==
    /\ FirstParseDone
    /\ Len(invocations) = 1
    /\ iterations >= 3

\* the Invocation a well-formed element stands for
ExpectedAttributes(attrs) ==
    CASE attrs = << >> -> None
      [] attrs = OneAttr -> Some({<< <<"k">>, <<"v">> >>})
      [] attrs = TwoAttrs -> Some({<< <<"k">>, <<"v">> >>, << <<"j">>, <<"w", " ", "z">> >>})

ExpectedPayload(payload) == IF Trim(payload) = << >> THEN None ELSE Some(Trim(payload))

ExpectedInvocation(d) ==
    Invocation(d.name, ExpectedAttributes(d.attrs), ExpectedPayload(d.payload))

\* C6: a text of two or more well-formed, non-nested invocations written one
\* after another parses to exactly these invocations, in order.
C6_SequenceAllReturned ==
    FirstParseDone =>
        \A es \in ElementSeqs :
            source = SeqText(es) =>
                invocations = [i \in 1..Len(es) |-> ExpectedInvocation(es[i])]

\* C7: the payload of every returned Invocation is absent or a trimmed,
\* non-empty string that does not start with '<'.
C7_PayloadAbsentOrProper ==
    \A i \in 1..Len(invocations) :
        IsSome(invocations[i].payload) =>
            /\ invocations[i].payload[1] # << >>
            /\ invocations[i].payload[1][1] # "<"
            /\ Trim(invocations[i].payload[1]) = invocations[i].payload[1]

\* C8: an element whose content begins with '<' parses to one Invocation, the
\* outer element with absent payload; no tag inside it is returned.
C8_NestedNotRecovered ==
    FirstParseDone =>
        \A n \in ElemNames :
            \A b \in Bodies(n) :
                source = Element(n, << >>, b) => invocations = <<Invocation(n, None, None)>>

\* C9: serializing the Invocation parsed from a single well-formed invocation
\* and parsing the result gives exactly that Invocation again.
C9_RoundTrip ==
    (round = 1 /\ pstate = "done" /\ source \in SingleTexts) =>
        invocations = <<original[1]>>

----------------------------------------------------------------------------
(* Claims about Storage, continued *)

\* what an operation makes of map m when nothing else runs during it
SerialEffect(o, m) ==
    CASE o.name = "add_tagged" -> MapInsert(m, o.key, Entry(o.data))
      [] o.name = "del_tagged" -> MapShiftRemove(m, o.key)
      [] o.name = "add_untagged" -> MapInsert(m, ToDecimal(Len(m) + 1), Entry(o.data))
      [] o.name = "del_untagged" -> MapShiftRemove(m, ToDecimal(o.pos))
      [] o.name = "set_current" ->
            LET put == MapInsert(MapShiftRemove(m, CURRENT_TAG), CURRENT_TAG, Entry(o.data))
            IN  IF IsSome(MapGet(m, CURRENT_TAG))
                THEN MapInsert(put, PREVIOUS_TAG, MapGet(m, CURRENT_TAG)[1])
                ELSE put
      [] o.name = "clear" -> << >>
      [] OTHER -> m

\* what it returns then
SerialResult(o, ty, m) ==
    CASE o.name \in {"del_tagged", "get_tagged"} -> RemovedData(m, o.key)
      [] o.name = "del_untagged" -> RemovedData(m, ToDecimal(o.pos))
      [] o.name = "to_structured_string" -> ToStructuredString(ty, m)
      [] OTHER -> None

InCriticalSection(t) == pc[t] \notin {"idle", "lock", "panicked"}

\* C11: every operation is one indivisible step for the other threads: a
\* thread is granted the lock only while no other thread is inside an operation
\* (so no render and no set_current sees the map between the steps of a
\* set_current), and when an operation returns, the map and the returned value are
\* those of the whole operation applied to the map as it was when the lock
\* was taken: the operations take effect in the serial order of their lock grants.
C11_OperationsIndivisible ==
    [][\A t \in Threads :
        /\ (pc[t] = "lock" /\ pc'[t] # "lock") =>
                \A u \in Threads \ {t} : ~InCriticalSection(u)
        /\ (InCriticalSection(t) /\ pc'[t] = "idle") =>
                /\ inner' = SerialEffect(op[t], before[t])
                /\ ret'[t] = Result(op[t].name, SerialResult(op[t], type_, before[t]))]_vars

\* a set_current on a Storage that has a current value is between its steps (the
\* current removed, the new one not yet demoting the old) while another thread
\* waits for the lock to render or to set_current
C11_Witness ==
    \E t \in Threads : \E u \in Threads \ {t} :
        /\ pc[t] \in {"set_current_insert", "set_current_demote"}
        /\ IsSome(old_current[t])
        /\ pc[u] = "lock"
        /\ op[u].name \in {"to_structured_string", "set_current"}

\* the position a decimal key stands for
KeyNumber(k) == CHOOSE n \in 0..(MaxSeqCalls + MaxCalls + 1) : ToDecimal(n) = k

\* the entries of m in ascending position
RECURSIVE SortByPosition(_)
SortByPosition(m) ==
    IF m = << >> THEN << >>
    ELSE LET i == CHOOSE i \in 1..Len(m) :
                    \A j \in 1..Len(m) : KeyNumber(m[i][1]) <= KeyNumber(m[j][1])
         IN  <<m[i]>> \o SortByPosition(SubSeq(m, 1, i - 1) \o SubSeq(m, i + 1, Len(m)))

\* C12: what an Untagged Storage renders lists the values of its entries in
\* ascending position key, after any sequence of add_untagged and del_untagged.
C12_UntaggedRendersInPositionOrder ==
    type_ = "Untagged" =>
        ToStructuredString(type_, inner) = ToStructuredString(type_, SortByPosition(inner))

\* the discipline each operation is documented to require ("" when any)
RequiredDiscipline(name) ==
    CASE name \in {"add_tagged", "get_tagged", "del_tagged"} -> "Tagged"
      [] name \in {"add_untagged", "del_untagged"} -> "Untagged"
      [] name = "set_current" -> "CurrentPrevious"
      [] OTHER -> ""

Mismatched(name) == RequiredDiscipline(name) \notin {"", type_}

\* C13: calling a discipline-restricted operation on a Storage of another
\* discipline panics the caller and nothing else: such a call never proceeds to
\* the lock (so it neither mutates nor returns normally), the map and the lock are
\* as before the call, the panicked thread holds no lock, and whoever holds the lock
\* is inside an operation it can finish.
C13_MismatchIsFatalAndHarmless ==
    [][\A t \in Threads :
        /\ (pc[t] = "idle" /\ pc'[t] = "lock") => ~Mismatched(op'[t].name)
        /\ (pc[t] = "idle" /\ pc'[t] = "panicked") =>
                /\ Mismatched(op'[t].name)
                /\ inner' = inner
                /\ lock' = lock
        /\ pc'[t] = "panicked" => lock' # t
        /\ lock' = t => InCriticalSection(t)']_vars

\* a thread has panicked on a mismatched call and afterwards another thread
\* called an operation, took the lock and returned
C13_Witness ==
    \E t \in Threads : \E u \in Threads \ {t} :
        /\ pc[t] = "panicked"
        /\ issued[t] = 1
        /\ issued[u] = 2
        /\ pc[u] = "idle"
        /\ ret[u].op # "none"
        /\ inner # << >>

\* the entries of m other than the one under key k, in their order in m
Without(m, k) == SelectSeq(m, LAMBDA e : e[1] # k)

Completes(t, name) == pc[t] = name /\ pc'[t] = "idle"

\* C14: del_tagged of a key the map does not hold returns None and leaves the
\* entries and their order as they were; del_tagged of a key it holds returns that
\* entry's data and leaves the other entries, in their relative order.
C14_DelTaggedRemovesOnlyThatKey ==
    [][\A t \in Threads :
        Completes(t, "del_tagged") =>
            LET k == op[t].key IN
            IF \E i \in 1..Len(inner) : inner[i][1] = k
            THEN /\ inner' = Without(inner, k)
                 /\ Len(inner') = Len(inner) - 1
                 /\ \E i \in 1..Len(inner) :
                        /\ inner[i][1] = k
                        /\ ret'[t] = Result("del_tagged", Some(inner[i][2].data))
            ELSE /\ inner' = inner
                 /\ ret'[t] = Result("del_tagged", None)]_vars

\* a del_tagged has removed the entry inserted first ("k", holding b) from a
\* map of three and the two left are in insertion order; another has found nothing
\* to remove
C14_Witness ==
    /\ type_ = "Tagged"
    /\ ret[1] = Result("del_tagged", Some(<<"b">>))
    /\ inner = <<<< <<"j">>, Entry(<<"a">>) >>, << <<"i">>, Entry(<<"a">>) >>>>

C14_WitnessAbsent ==
    /\ type_ = "Tagged"
    /\ ret[1] = Result("del_tagged", None)
    /\ Len(inner) = 2

\* C15: del_untagged(pos) removes the entry whose key is the decimal of pos
\* and returns its data; the other entries keep their keys, data and order; when no
\* entry has that key the map is unchanged and None is returned.
C15_DelUntaggedRemovesOnlyThatPosition ==
    [][\A t \in Threads :
        Completes(t, "del_untagged") =>
            LET k == ToDecimal(op[t].pos) IN
            IF \E i \in 1..Len(inner) : inner[i][1] = k
            THEN /\ inner' = Without(inner, k)
                 /\ Len(inner') = Len(inner) - 1
                 /\ \E i \in 1..Len(inner) :
                        /\ inner[i][1] = k
                        /\ ret'[t] = Result("del_untagged", Some(inner[i][2].data))
            ELSE /\ inner' = inner
                 /\ ret'[t] = Result("del_untagged", None)]_vars

\* position 2 of three has been removed: positions 1 and 3 keep key and data
C15_Witness ==
    /\ type_ = "Untagged"
    /\ ret[1] = Result("del_untagged", Some(<<"b">>))
    /\ inner = <<<< ToDecimal(1), Entry(<<"a">>) >>, << ToDecimal(3), Entry(<<"a">>) >>>>

C15_WitnessAbsent ==
    /\ type_ = "Untagged"
    /\ ret[1] = Result("del_untagged", None)
    /\ Len(inner) = 2

\* C16: clear and to_structured_string are never refused, whatever the
\* discipline and the entries; a completing clear leaves the map empty and the
\* render of the map it leaves is the empty string; a render of an empty map
\* returns the empty string, in particular the render called right after a clear.
C16_ClearEmptiesAndRendersEmpty ==
    [][\A t \in Threads :
        /\ (pc[t] = "idle" /\ op'[t].name \in {"clear", "to_structured_string"}) =>
                pc'[t] = "lock"
        /\ Completes(t, "clear") =>
                /\ inner' = << >>
                /\ ret'[t] = Result("clear", None)
                /\ ToStructuredString(type_, inner') = << >>
        /\ (Completes(t, "to_structured_string") /\ inner = << >>) =>
                ret'[t] = Result("to_structured_string", << >>)
        /\ (Completes(t, "to_structured_string") /\ ret[t] = Result("clear", None)
                /\ \A u \in Threads \ {t} : issued[u] = 0) =>
                ret'[t] = Result("to_structured_string", << >>)]_vars

\* three entries were added, clear has emptied the map, and the render called
\* right after it has returned the empty string
C16_Witness ==
    /\ Len(assigned) = 3
    /\ issued[1] = 5
    /\ inner = << >>
    /\ pc[1] = "idle"
    /\ ret[1] = Result("to_structured_string", << >>)

\* C19: whenever no operation holds the lock of a CurrentPrevious Storage, its
\* keys are among "current" and "previous", "previous" is there only with
\* "current", and its rendering is empty exactly when the map is.
C19_CurrentPreviousKeys ==
    (type_ = "CurrentPrevious" /\ lock = 0) =>
        /\ MapKeys(inner) \subseteq {CURRENT_TAG, PREVIOUS_TAG}
        /\ PREVIOUS_TAG \in MapKeys(inner) => CURRENT_TAG \in MapKeys(inner)
        /\ Len(inner) <= 2
        /\ (ToStructuredString(type_, inner) = << >>) <=> (inner = << >>)

\* both keys are present after a clear and two set_current by threads that
\* interleave, and nobody holds the lock
C19_Witness ==
    /\ type_ = "CurrentPrevious"
    /\ lock = 0
    /\ MapKeys(inner) = {CURRENT_TAG, PREVIOUS_TAG}
    /\ \E t \in Threads : ret[t] = Result("clear", None)
    /\ \E t \in Threads : ret[t] = Result("set_current", None)

----------------------------------------------------------------------------
(* Claims about parse_model_response, continued *)

\* C17: when an opening tag has no closing tag in the rest of the text, the
\* well-formed invocation that begins after it is returned.
C17_InvocationAfterUnterminatedTag ==
    FirstParseDone =>
        \A n \in ElemNames : \A a \in {<< >>, OneAttr} : \A pad \in Paddings :
            \A d \in {e \in SeqElements : e.name # n} :
                source = Opening(n, a) \o pad \o ElementOf(d) =>
                    \E i \in 1..Len(invocations) : invocations[i] = ExpectedInvocation(d)

\* the well-formed attributes of a clause of MalformedClauses or of Repeated
WellFormedAttributes(attrs) ==
    IF attrs = Repeated
    THEN {<< <<"k">>, <<"w">> >>}
    ELSE {<< <<"k">>, <<"v">> >>}

\* C18: an element whose opening tag holds k="v" next to a malformed attribute
\* (a=b or a="") parses to an Invocation whose attributes are exactly k -> v, and
\* one that holds k="v" k="w" to attributes k -> w.
C18_MalformedAttributeDropped ==
    FirstParseDone =>
        \A n \in ElemNames : \A a \in MalformedClauses \cup {Repeated} :
            \A p \in ShortPayloads :
                source = Element(n, a, p) =>
                    /\ Len(invocations) >= 1
                    /\ invocations[1].action = n
                    /\ invocations[1].attributes = Some(WellFormedAttributes(a))

\* a held Mutex is held by a thread inside an operation on that Storage
HoldsOnlyOwnLock ==
    \A s \in Storages :
        holder[s] # 0 =>
            /\ on[holder[s]] = s
            /\ at[holder[s]] \notin {"idle", "lock", "panicked"}

\* C20: a thread holds no lock but that of the Storage its operation was
\* called on (so never two locks), and every operation that was started, on any
\* Storage and whatever the other threads do, eventually returns.
C20_EveryStartedOperationCompletes ==
    /\ []HoldsOnlyOwnLock
    /\ \A t \in Threads : (at[t] \notin {"idle", "panicked"}) ~> (at[t] = "idle")

\* a thread is in the middle of set_current, holding the lock of its
\* Storage, and another thread's call on the same Storage waits for that lock
C20_Witness ==
    \E t \in Threads : \E u \in Threads \ {t} :
        /\ at[t] = "set_current_insert"
        /\ at[u] = "lock"
        /\ on[u] = on[t]
        /\ holder[on[t]] = t

====
